---- MODULE Spec2Model ----
(***************************************************************************)
(* Zotion: one-way sync of a Zotero CSV export into a Notion database.     *)
(* Model of src/zotion.py: format_date, get_existing_notion_titles,        *)
(* get_database_properties, push_to_notion, ZoteroNotionApp.start_sync     *)
(* and ZoteroNotionApp._sync_thread.                                       *)
(*                                                                         *)
(* Python strings that the code inspects character by character (dates,   *)
(* DOIs, author names) are sequences of one-character strings.  Titles are *)
(* only compared for equality and are TLA+ strings.  An absent CSV cell    *)
(* (None) and an empty cell ("") are both the empty sequence: the code     *)
(* tests them with `if x` / `not x` before anything else.                  *)
(***************************************************************************)
EXTENDS Integers, Sequences, FiniteSets, TLC

VARIABLES
    table,            \* the remote Notion database: sequence of page records
    pc,               \* per run: position of the sync thread
    items,            \* per run: items parsed from the CSV
    acc,              \* per run: get_existing_notion_titles.existing_titles
    has_more,         \* per run: get_existing_notion_titles.has_more
    next_cursor,      \* per run: get_existing_notion_titles.next_cursor (0 = None)
    existing_titles,  \* per run: push_to_notion.existing_titles
    prop_types,       \* per run: push_to_notion.prop_types
    idx,              \* per run: position of the for loop in items_to_push
    pushed,           \* per run: push_to_notion.pushed
    skipped,          \* per run: push_to_notion.skipped
    log,              \* per run: requests sent and log lines, in order
    err,              \* per run: the exception that reached _sync_thread
    dialog,           \* per run: title of the messagebox shown
    complete,         \* per run: 'Sync complete.' was printed
    date_str,         \* format_date harness: the argument
    date_out,         \* format_date harness: the value returned
    date_pc,          \* format_date harness: position
    pay_item,         \* payload harness: the item
    pay_types,        \* payload harness: the field-type map
    pay_out,          \* payload harness: the properties built
    pay_pc            \* payload harness: position

syncVars == <<table, pc, items, acc, has_more, next_cursor, existing_titles,
              prop_types, idx, pushed, skipped, log, err, dialog, complete>>
dateVars == <<date_str, date_out, date_pc>>
payVars == <<pay_item, pay_types, pay_out, pay_pc>>
vars == <<syncVars, dateVars, payVars>>

(***************************************************************************)
(* Strings                                                                 *)
(***************************************************************************)
\* A character is a one-character string; a character outside printable ASCII
\* is written by its escape ("\t", "\n", "\f", "\r") or by its code point
\* ("U+00A0").
AsciiDigits == {"0", "1", "2", "3", "4", "5", "6", "7", "8", "9"}

\* the decimal digits of the other scripts (str.isdecimal), each script's ten
\* in the order of their values
UnicodeDigitRuns ==
    << <<"U+0660", "U+0661", "U+0662", "U+0663", "U+0664", "U+0665", "U+0666", "U+0667", "U+0668", "U+0669">>,
       <<"U+06F0", "U+06F1", "U+06F2", "U+06F3", "U+06F4", "U+06F5", "U+06F6", "U+06F7", "U+06F8", "U+06F9">>,
       <<"U+07C0", "U+07C1", "U+07C2", "U+07C3", "U+07C4", "U+07C5", "U+07C6", "U+07C7", "U+07C8", "U+07C9">>,
       <<"U+0966", "U+0967", "U+0968", "U+0969", "U+096A", "U+096B", "U+096C", "U+096D", "U+096E", "U+096F">>,
       <<"U+09E6", "U+09E7", "U+09E8", "U+09E9", "U+09EA", "U+09EB", "U+09EC", "U+09ED", "U+09EE", "U+09EF">>,
       <<"U+0A66", "U+0A67", "U+0A68", "U+0A69", "U+0A6A", "U+0A6B", "U+0A6C", "U+0A6D", "U+0A6E", "U+0A6F">>,
       <<"U+0AE6", "U+0AE7", "U+0AE8", "U+0AE9", "U+0AEA", "U+0AEB", "U+0AEC", "U+0AED", "U+0AEE", "U+0AEF">>,
       <<"U+0B66", "U+0B67", "U+0B68", "U+0B69", "U+0B6A", "U+0B6B", "U+0B6C", "U+0B6D", "U+0B6E", "U+0B6F">>,
       <<"U+0BE6", "U+0BE7", "U+0BE8", "U+0BE9", "U+0BEA", "U+0BEB", "U+0BEC", "U+0BED", "U+0BEE", "U+0BEF">>,
       <<"U+0C66", "U+0C67", "U+0C68", "U+0C69", "U+0C6A", "U+0C6B", "U+0C6C", "U+0C6D", "U+0C6E", "U+0C6F">>,
       <<"U+0CE6", "U+0CE7", "U+0CE8", "U+0CE9", "U+0CEA", "U+0CEB", "U+0CEC", "U+0CED", "U+0CEE", "U+0CEF">>,
       <<"U+0D66", "U+0D67", "U+0D68", "U+0D69", "U+0D6A", "U+0D6B", "U+0D6C", "U+0D6D", "U+0D6E", "U+0D6F">>,
       <<"U+0DE6", "U+0DE7", "U+0DE8", "U+0DE9", "U+0DEA", "U+0DEB", "U+0DEC", "U+0DED", "U+0DEE", "U+0DEF">>,
       <<"U+0E50", "U+0E51", "U+0E52", "U+0E53", "U+0E54", "U+0E55", "U+0E56", "U+0E57", "U+0E58", "U+0E59">>,
       <<"U+0ED0", "U+0ED1", "U+0ED2", "U+0ED3", "U+0ED4", "U+0ED5", "U+0ED6", "U+0ED7", "U+0ED8", "U+0ED9">>,
       <<"U+0F20", "U+0F21", "U+0F22", "U+0F23", "U+0F24", "U+0F25", "U+0F26", "U+0F27", "U+0F28", "U+0F29">>,
       <<"U+1040", "U+1041", "U+1042", "U+1043", "U+1044", "U+1045", "U+1046", "U+1047", "U+1048", "U+1049">>,
       <<"U+1090", "U+1091", "U+1092", "U+1093", "U+1094", "U+1095", "U+1096", "U+1097", "U+1098", "U+1099">>,
       <<"U+17E0", "U+17E1", "U+17E2", "U+17E3", "U+17E4", "U+17E5", "U+17E6", "U+17E7", "U+17E8", "U+17E9">>,
       <<"U+1810", "U+1811", "U+1812", "U+1813", "U+1814", "U+1815", "U+1816", "U+1817", "U+1818", "U+1819">>,
       <<"U+1946", "U+1947", "U+1948", "U+1949", "U+194A", "U+194B", "U+194C", "U+194D", "U+194E", "U+194F">>,
       <<"U+19D0", "U+19D1", "U+19D2", "U+19D3", "U+19D4", "U+19D5", "U+19D6", "U+19D7", "U+19D8", "U+19D9">>,
       <<"U+1A80", "U+1A81", "U+1A82", "U+1A83", "U+1A84", "U+1A85", "U+1A86", "U+1A87", "U+1A88", "U+1A89">>,
       <<"U+1A90", "U+1A91", "U+1A92", "U+1A93", "U+1A94", "U+1A95", "U+1A96", "U+1A97", "U+1A98", "U+1A99">>,
       <<"U+1B50", "U+1B51", "U+1B52", "U+1B53", "U+1B54", "U+1B55", "U+1B56", "U+1B57", "U+1B58", "U+1B59">>,
       <<"U+1BB0", "U+1BB1", "U+1BB2", "U+1BB3", "U+1BB4", "U+1BB5", "U+1BB6", "U+1BB7", "U+1BB8", "U+1BB9">>,
       <<"U+1C40", "U+1C41", "U+1C42", "U+1C43", "U+1C44", "U+1C45", "U+1C46", "U+1C47", "U+1C48", "U+1C49">>,
       <<"U+1C50", "U+1C51", "U+1C52", "U+1C53", "U+1C54", "U+1C55", "U+1C56", "U+1C57", "U+1C58", "U+1C59">>,
       <<"U+A620", "U+A621", "U+A622", "U+A623", "U+A624", "U+A625", "U+A626", "U+A627", "U+A628", "U+A629">>,
       <<"U+A8D0", "U+A8D1", "U+A8D2", "U+A8D3", "U+A8D4", "U+A8D5", "U+A8D6", "U+A8D7", "U+A8D8", "U+A8D9">>,
       <<"U+A900", "U+A901", "U+A902", "U+A903", "U+A904", "U+A905", "U+A906", "U+A907", "U+A908", "U+A909">>,
       <<"U+A9D0", "U+A9D1", "U+A9D2", "U+A9D3", "U+A9D4", "U+A9D5", "U+A9D6", "U+A9D7", "U+A9D8", "U+A9D9">>,
       <<"U+A9F0", "U+A9F1", "U+A9F2", "U+A9F3", "U+A9F4", "U+A9F5", "U+A9F6", "U+A9F7", "U+A9F8", "U+A9F9">>,
       <<"U+AA50", "U+AA51", "U+AA52", "U+AA53", "U+AA54", "U+AA55", "U+AA56", "U+AA57", "U+AA58", "U+AA59">>,
       <<"U+ABF0", "U+ABF1", "U+ABF2", "U+ABF3", "U+ABF4", "U+ABF5", "U+ABF6", "U+ABF7", "U+ABF8", "U+ABF9">>,
       <<"U+FF10", "U+FF11", "U+FF12", "U+FF13", "U+FF14", "U+FF15", "U+FF16", "U+FF17", "U+FF18", "U+FF19">>,
       <<"U+104A0", "U+104A1", "U+104A2", "U+104A3", "U+104A4", "U+104A5", "U+104A6", "U+104A7", "U+104A8", "U+104A9">>,
       <<"U+10D30", "U+10D31", "U+10D32", "U+10D33", "U+10D34", "U+10D35", "U+10D36", "U+10D37", "U+10D38", "U+10D39">>,
       <<"U+11066", "U+11067", "U+11068", "U+11069", "U+1106A", "U+1106B", "U+1106C", "U+1106D", "U+1106E", "U+1106F">>,
       <<"U+110F0", "U+110F1", "U+110F2", "U+110F3", "U+110F4", "U+110F5", "U+110F6", "U+110F7", "U+110F8", "U+110F9">>,
       <<"U+11136", "U+11137", "U+11138", "U+11139", "U+1113A", "U+1113B", "U+1113C", "U+1113D", "U+1113E", "U+1113F">>,
       <<"U+111D0", "U+111D1", "U+111D2", "U+111D3", "U+111D4", "U+111D5", "U+111D6", "U+111D7", "U+111D8", "U+111D9">>,
       <<"U+112F0", "U+112F1", "U+112F2", "U+112F3", "U+112F4", "U+112F5", "U+112F6", "U+112F7", "U+112F8", "U+112F9">>,
       <<"U+11450", "U+11451", "U+11452", "U+11453", "U+11454", "U+11455", "U+11456", "U+11457", "U+11458", "U+11459">>,
       <<"U+114D0", "U+114D1", "U+114D2", "U+114D3", "U+114D4", "U+114D5", "U+114D6", "U+114D7", "U+114D8", "U+114D9">>,
       <<"U+11650", "U+11651", "U+11652", "U+11653", "U+11654", "U+11655", "U+11656", "U+11657", "U+11658", "U+11659">>,
       <<"U+116C0", "U+116C1", "U+116C2", "U+116C3", "U+116C4", "U+116C5", "U+116C6", "U+116C7", "U+116C8", "U+116C9">>,
       <<"U+11730", "U+11731", "U+11732", "U+11733", "U+11734", "U+11735", "U+11736", "U+11737", "U+11738", "U+11739">>,
       <<"U+118E0", "U+118E1", "U+118E2", "U+118E3", "U+118E4", "U+118E5", "U+118E6", "U+118E7", "U+118E8", "U+118E9">>,
       <<"U+11950", "U+11951", "U+11952", "U+11953", "U+11954", "U+11955", "U+11956", "U+11957", "U+11958", "U+11959">>,
       <<"U+11C50", "U+11C51", "U+11C52", "U+11C53", "U+11C54", "U+11C55", "U+11C56", "U+11C57", "U+11C58", "U+11C59">>,
       <<"U+11D50", "U+11D51", "U+11D52", "U+11D53", "U+11D54", "U+11D55", "U+11D56", "U+11D57", "U+11D58", "U+11D59">>,
       <<"U+11DA0", "U+11DA1", "U+11DA2", "U+11DA3", "U+11DA4", "U+11DA5", "U+11DA6", "U+11DA7", "U+11DA8", "U+11DA9">>,
       <<"U+16A60", "U+16A61", "U+16A62", "U+16A63", "U+16A64", "U+16A65", "U+16A66", "U+16A67", "U+16A68", "U+16A69">>,
       <<"U+16AC0", "U+16AC1", "U+16AC2", "U+16AC3", "U+16AC4", "U+16AC5", "U+16AC6", "U+16AC7", "U+16AC8", "U+16AC9">>,
       <<"U+16B50", "U+16B51", "U+16B52", "U+16B53", "U+16B54", "U+16B55", "U+16B56", "U+16B57", "U+16B58", "U+16B59">>,
       <<"U+1D7CE", "U+1D7CF", "U+1D7D0", "U+1D7D1", "U+1D7D2", "U+1D7D3", "U+1D7D4", "U+1D7D5", "U+1D7D6", "U+1D7D7">>,
       <<"U+1D7D8", "U+1D7D9", "U+1D7DA", "U+1D7DB", "U+1D7DC", "U+1D7DD", "U+1D7DE", "U+1D7DF", "U+1D7E0", "U+1D7E1">>,
       <<"U+1D7E2", "U+1D7E3", "U+1D7E4", "U+1D7E5", "U+1D7E6", "U+1D7E7", "U+1D7E8", "U+1D7E9", "U+1D7EA", "U+1D7EB">>,
       <<"U+1D7EC", "U+1D7ED", "U+1D7EE", "U+1D7EF", "U+1D7F0", "U+1D7F1", "U+1D7F2", "U+1D7F3", "U+1D7F4", "U+1D7F5">>,
       <<"U+1D7F6", "U+1D7F7", "U+1D7F8", "U+1D7F9", "U+1D7FA", "U+1D7FB", "U+1D7FC", "U+1D7FD", "U+1D7FE", "U+1D7FF">>,
       <<"U+1E140", "U+1E141", "U+1E142", "U+1E143", "U+1E144", "U+1E145", "U+1E146", "U+1E147", "U+1E148", "U+1E149">>,
       <<"U+1E2F0", "U+1E2F1", "U+1E2F2", "U+1E2F3", "U+1E2F4", "U+1E2F5", "U+1E2F6", "U+1E2F7", "U+1E2F8", "U+1E2F9">>,
       <<"U+1E950", "U+1E951", "U+1E952", "U+1E953", "U+1E954", "U+1E955", "U+1E956", "U+1E957", "U+1E958", "U+1E959">>,
       <<"U+1FBF0", "U+1FBF1", "U+1FBF2", "U+1FBF3", "U+1FBF4", "U+1FBF5", "U+1FBF6", "U+1FBF7", "U+1FBF8", "U+1FBF9">> >>

\* \d of a str pattern, and the digits int() converts
Digits ==
    AsciiDigits \cup
    UNION {{UnicodeDigitRuns[n][k] : k \in 1..10} : n \in 1..Len(UnicodeDigitRuns)}

\* the characters str.isspace() holds for, which str.strip() removes
Whitespace ==
    { "\t", "\n", "U+000B", "\f", "\r", "U+001C", "U+001D", "U+001E",
      "U+001F", " ", "U+0085", "U+00A0", "U+1680", "U+2000", "U+2001", "U+2002",
      "U+2003", "U+2004", "U+2005", "U+2006", "U+2007", "U+2008", "U+2009", "U+200A",
      "U+2028", "U+2029", "U+202F", "U+205F", "U+3000" }

AsciiDigitVal(c) ==
    CASE c = "0" -> 0 [] c = "1" -> 1 [] c = "2" -> 2 [] c = "3" -> 3
      [] c = "4" -> 4 [] c = "5" -> 5 [] c = "6" -> 6 [] c = "7" -> 7
      [] c = "8" -> 8 [] c = "9" -> 9

\* the value int() gives a decimal digit
DigitVal(c) ==
    IF c \in AsciiDigits THEN AsciiDigitVal(c)
    ELSE LET run == CHOOSE n \in 1..Len(UnicodeDigitRuns) :
                        \E k \in 1..10 : UnicodeDigitRuns[n][k] = c
         IN  (CHOOSE k \in 1..10 : UnicodeDigitRuns[run][k] = c) - 1

DigitChar(n) ==
    CASE n = 0 -> "0" [] n = 1 -> "1" [] n = 2 -> "2" [] n = 3 -> "3"
      [] n = 4 -> "4" [] n = 5 -> "5" [] n = 6 -> "6" [] n = 7 -> "7"
      [] n = 8 -> "8" [] n = 9 -> "9"

\* int(s) for a string of digits, leading blanks allowed (int(" 7") = 7)
RECURSIVE IntOf(_)
IntOf(s) ==
    IF s = <<>> THEN 0
    ELSE IF s[Len(s)] \in Digits
         THEN 10 * IntOf(SubSeq(s, 1, Len(s) - 1)) + DigitVal(s[Len(s)])
         ELSE IntOf(SubSeq(s, 1, Len(s) - 1))

\* str(n) for n >= 0
RECURSIVE StrOf(_)
StrOf(n) ==
    IF n < 10 THEN <<DigitChar(n)>>
    ELSE Append(StrOf(n \div 10), DigitChar(n % 10))

\* zero-fill on the left to width w
RECURSIVE ZFill(_, _)
ZFill(s, w) == IF Len(s) >= w THEN s ELSE ZFill(<<"0">> \o s, w)

\* str.strip()
RECURSIVE LStrip(_)
LStrip(s) ==
    IF s # <<>> /\ s[1] \in Whitespace THEN LStrip(Tail(s)) ELSE s

RECURSIVE RStrip(_)
RStrip(s) ==
    IF s # <<>> /\ s[Len(s)] \in Whitespace
    THEN RStrip(SubSeq(s, 1, Len(s) - 1)) ELSE s

Strip(s) == RStrip(LStrip(s))

\* str.startswith(p)
StartsWith(s, p) == Len(s) >= Len(p) /\ SubSeq(s, 1, Len(p)) = p

\* sep.join(parts)
RECURSIVE Join(_, _)
Join(parts, sep) ==
    IF parts = <<>> THEN <<>>
    ELSE IF Len(parts) = 1 THEN parts[1]
    ELSE parts[1] \o sep \o Join(Tail(parts), sep)

\* Optional values: None and a present value
None == [some |-> FALSE, val |-> <<>>]
Some(v) == [some |-> TRUE, val |-> v]

(***************************************************************************)
(* format_date: datetime.strptime over four formats, then strftime         *)
(***************************************************************************)
\* the formats of format_date's loop, in its order; a directive is a
\* two-character token, anything else a literal character
FORMATS ==
    << <<"%Y", "-", "%m", "-", "%d">>,
       <<"%Y", "-", "%m">>,
       <<"%m", "/", "%Y">>,
       <<"%Y">> >>

IsDirective(tok) == tok \in {"%Y", "%m", "%d"}

\* [1-9]
NonZeroDigits == AsciiDigits \ {"0"}

\* s[pos], or a character no pattern accepts when pos is past the end
CharAt(s, pos) == IF pos >= 1 /\ pos <= Len(s) THEN s[pos] ELSE "$"

\* The alternatives of a directive's regular expression that match at pos, as
\* the lengths they consume, in the order the expression lists them:
\*   %Y (\d\d\d\d)   %m (1[0-2]|0[1-9]|[1-9])
\*   %d (3[0-1]|[1-2]\d|0[1-9]|[1-9]| [1-9])
DirAlts(tok, s, pos) ==
    LET a == CharAt(s, pos)
        b == CharAt(s, pos + 1)
        Opt(cond, n) == IF cond THEN <<n>> ELSE <<>>
    IN  CASE tok = "%Y" ->
               Opt(\A k \in 0..3 : CharAt(s, pos + k) \in Digits, 4)
          [] tok = "%m" ->
               Opt(a = "1" /\ b \in {"0", "1", "2"}, 2)
               \o Opt(a = "0" /\ b \in NonZeroDigits, 2)
               \o Opt(a \in NonZeroDigits, 1)
          [] tok = "%d" ->
               Opt(a = "3" /\ b \in {"0", "1"}, 2)
               \o Opt(a \in {"1", "2"} /\ b \in Digits, 2)
               \o Opt(a = "0" /\ b \in NonZeroDigits, 2)
               \o Opt(a \in NonZeroDigits, 1)
               \o Opt(a = " " /\ b \in NonZeroDigits, 2)

NoMatch == [ok |-> FALSE, end |-> 0, Y |-> 1900, m |-> 1, d |-> 1]

SetField(r, tok, v) ==
    CASE tok = "%Y" -> [r EXCEPT !.Y = v]
      [] tok = "%m" -> [r EXCEPT !.m = v]
      [] tok = "%d" -> [r EXCEPT !.d = v]

\* re.match of the format's pattern on s from pos: the first match in the
\* order a backtracking matcher explores the alternatives
RECURSIVE MatchFrom(_, _, _, _), TryAlts(_, _, _, _, _, _)
MatchFrom(fmt, k, s, pos) ==
    IF k > Len(fmt)
    THEN [ok |-> TRUE, end |-> pos, Y |-> 1900, m |-> 1, d |-> 1]
    ELSE IF IsDirective(fmt[k])
         THEN TryAlts(fmt, k, s, pos, DirAlts(fmt[k], s, pos), 1)
         ELSE IF CharAt(s, pos) = fmt[k]
              THEN MatchFrom(fmt, k + 1, s, pos + 1)
              ELSE NoMatch

TryAlts(fmt, k, s, pos, alts, j) ==
    IF j > Len(alts) THEN NoMatch
    ELSE LET rest == MatchFrom(fmt, k + 1, s, pos + alts[j])
         IN  IF rest.ok
             THEN SetField(rest, fmt[k], IntOf(SubSeq(s, pos, pos + alts[j] - 1)))
             ELSE TryAlts(fmt, k, s, pos, alts, j + 1)

IsLeap(y) == (y % 4 = 0 /\ y % 100 # 0) \/ y % 400 = 0

DaysInMonth(y, m) ==
    IF m = 2 THEN (IF IsLeap(y) THEN 29 ELSE 28)
    ELSE IF m \in {4, 6, 9, 11} THEN 30 ELSE 31

\* datetime.strptime(s, fmt): the date, or None where it raises ValueError
\* (no match, unconverted data remains, or no such calendar date)
strptime(s, fmt) ==
    LET r == MatchFrom(fmt, 1, s, 1)
    IN  IF ~r.ok THEN None
        ELSE IF r.end # Len(s) + 1 THEN None
        ELSE IF r.Y < 1 \/ r.d > DaysInMonth(r.Y, r.m) THEN None
        ELSE Some([Y |-> r.Y, m |-> r.m, d |-> r.d])

\* dt.strftime("%Y-%m-%d").  The C library formats %Y: it zero-fills the
\* year to four digits on some platforms (pads) and not on others (glibc).
strftime(dt, pads) ==
    (IF pads THEN ZFill(StrOf(dt.Y), 4) ELSE StrOf(dt.Y))
    \o <<"-">> \o ZFill(StrOf(dt.m), 2) \o <<"-">> \o ZFill(StrOf(dt.d), 2)

RECURSIVE FormatLoop(_, _, _)
FormatLoop(s, k, pads) ==
    IF k > Len(FORMATS) THEN None
    ELSE LET dt == strptime(s, FORMATS[k])
         IN  IF dt.some THEN Some(strftime(dt.val, pads))
             ELSE FormatLoop(s, k + 1, pads)

format_date(s, pads) == IF s = <<>> THEN None ELSE FormatLoop(s, 1, pads)

(***************************************************************************)
(* Python dicts are functions on strings; d.get(k, default)                *)
(***************************************************************************)
DictGet(d, k, default) == IF k \in DOMAIN d THEN d[k] ELSE default

EmptyDict == [k \in {} |-> 0]

\* A value that is None or a str (a title of the index, a field's type): None
\* equals no str, the text "<None>" included
PyNone == [none |-> TRUE, str |-> ""]
PyStr(s) == [none |-> FALSE, str |-> s]

\* d.get(k) for a dict of strings
GetStr(d, k) == IF k \in DOMAIN d THEN PyStr(d[k]) ELSE PyNone

\* "https://doi.org/"
DOI_PREFIX ==
    <<"h", "t", "t", "p", "s", ":", "/", "/", "d", "o", "i", ".", "o", "r", "g", "/">>

HTTP == <<"h", "t", "t", "p">>

UNKNOWN == <<"U", "n", "k", "n", "o", "w", "n">>

(***************************************************************************)
(* push_to_notion: the creation request of one item                        *)
(***************************************************************************)
\* doi_type = prop_types.get("DOI", "rich_text")
DoiType(types) == DictGet(types, "DOI", PyStr("rich_text"))

\* doi_value = item["doi"].strip() if item["doi"] else None
DoiValue(item) == IF item.doi # <<>> THEN Some(Strip(item.doi)) ELSE None

\* a DOI URL built without the test for a value that is a URL already
DoiUrlAlwaysPrefixed(doi_value) == DOI_PREFIX \o doi_value

\* doi_url = doi_value if doi_value.startswith("http") else "https://doi.org/" + doi_value
DoiUrl(doi_value) ==
    IF StartsWith(doi_value, HTTP) THEN doi_value ELSE DOI_PREFIX \o doi_value

\* the DOI property, encoded for the field type
DoiProperty(doi_url, doi_type) ==
    IF doi_type = PyStr("url")
    THEN [url |-> doi_url]
    ELSE [rich_text |-> << [text |-> [content |-> doi_url]] >>]

\* the properties dict built for one item (pads: see strftime)
BuildProperties(item, doi_type, pads) ==
    LET authors_text == IF item.authors # <<>>
                        THEN Join(item.authors, <<",", " ">>) ELSE UNKNOWN
        doi_value == DoiValue(item)
        date_iso == format_date(item.date, pads)
        base == [Title |-> [title |-> << [text |-> [content |-> item.title]] >>],
                 Authors |-> [rich_text |-> << [text |-> [content |-> authors_text]] >>]]
        withDate == IF date_iso.some /\ date_iso.val # <<>>
                    THEN ("Date" :> [date |-> [start |-> date_iso.val]]) @@ base
                    ELSE base
    IN  IF doi_value.some /\ doi_value.val # <<>>
        THEN ("DOI" :> DoiProperty(DoiUrl(doi_value.val), doi_type)) @@ withDate
        ELSE withDate

(***************************************************************************)
(* get_existing_notion_titles: the title of one page, the titles of a page *)
(* of results                                                              *)
(***************************************************************************)
TITLE_KEYS == <<"Title", "Name", "title">>

\* title_prop = props.get(key, {}).get("title", [])
TitleProp(props, key) == DictGet(DictGet(props, key, EmptyDict), "title", <<>>)

\* title_prop[0].get("text", {}).get("content")
FirstContent(title_prop) ==
    GetStr(DictGet(title_prop[1], "text", EmptyDict), "content")

\* a loop that stops at the first candidate the page has, empty or not
RECURSIVE TitlesOfPageFirstPresent(_, _)
TitlesOfPageFirstPresent(props, k) ==
    IF k > Len(TITLE_KEYS) THEN {}
    ELSE IF TITLE_KEYS[k] \in DOMAIN props
         THEN (IF TitleProp(props, TITLE_KEYS[k]) # <<>>
               THEN {FirstContent(TitleProp(props, TITLE_KEYS[k]))} ELSE {})
         ELSE TitlesOfPageFirstPresent(props, k + 1)

\* for key in ("Title", "Name", "title"): ... if title_prop: add; break
\* the set of titles one page adds (empty or a singleton), from candidate k on
RECURSIVE TitlesOfPage(_, _)
TitlesOfPage(props, k) ==
    IF k > Len(TITLE_KEYS) THEN {}
    ELSE IF TitleProp(props, TITLE_KEYS[k]) # <<>>
         THEN {FirstContent(TitleProp(props, TITLE_KEYS[k]))}
         ELSE TitlesOfPage(props, k + 1)

\* for page in data.get("results", []): ...
ResultTitles(data) ==
    LET results == DictGet(data, "results", <<>>)
    IN  UNION {TitlesOfPage(DictGet(results[n], "properties", EmptyDict), 1) :
               n \in 1..Len(results)}

\* a loop that stops after its first page
HasMoreIgnored(data) == FALSE

\* has_more = data.get("has_more", False)
HasMore(data) == DictGet(data, "has_more", FALSE)

\* next_cursor = data.get("next_cursor"); 0 stands for None
NextCursor(data) == DictGet(data, "next_cursor", 0)

\* payload: start_cursor is sent only when next_cursor is truthy;
\* the cursor sent, 0 when none is
PAGE_SIZE == 100

StartCursor(cursor) == IF cursor # 0 THEN cursor ELSE 0

(***************************************************************************)
(* Bounds and input sets                                                   *)
(***************************************************************************)
MaxRemote == 3        \* pages in the remote database before a run
MaxItems == 2         \* rows of a CSV file
ServerPageLen == 2    \* records the server puts in one response (<= page_size)
ConcMaxRemote == 1    \* the same, for the specification of two runs
ConcMaxItems == 1

Runs == {1, 2}

Seg(t) == [text |-> [content |-> t]]

\* pages as the remote returns them
PageShapes ==
    { [properties |-> [Title |-> [title |-> <<Seg("A")>>]]],
      \* a text column called Title next to the title column Name
      [properties |-> [Title |-> [rich_text |-> <<Seg("B")>>],
                       Name |-> [title |-> <<Seg("A")>>]]],
      [properties |-> [title |-> [title |-> <<Seg("B"), Seg("A")>>]]],
      \* an untitled page
      [properties |-> [Title |-> [title |-> <<>>]]],
      \* a title that begins with a mention, which has no text
      [properties |-> [Name |-> [title |-> <<[mention |-> "m"], Seg("A")>>]]] }

ConcPageShapes == { [properties |-> [Title |-> [title |-> <<Seg("A")>>]]] }

SeqsUpTo(S, n) == UNION {[1..k -> S] : k \in 0..n}

S_2020_05 == <<"2", "0", "2", "0", "-", "0", "5">>
S_DOI == <<"1", "0", ".", "1", "/", "x", "y", "z">>

ItemA == [title |-> "A", authors |-> << <<"J", " ", "D">>, <<"B", " ", "S">> >>,
          date |-> S_2020_05, doi |-> S_DOI]
ItemB == [title |-> "B", authors |-> <<>>, date |-> <<"n", "d">>, doi |-> <<>>]
ItemSet == {ItemA, ItemB}
ConcItemSet == {ItemA, ItemB}

\* the field definitions the schema request can return
Schemas ==
    { [properties |-> [Title |-> [type |-> "title"], DOI |-> [type |-> "url"]]],
      [properties |-> [Title |-> [type |-> "title"], DOI |-> [type |-> "rich_text"]]],
      [properties |-> [Name |-> [type |-> "title"]]] }

\* exceptions: requests.exceptions.HTTPError carries the response's status
NoError == [kind |-> "none", status |-> 0, at |-> "none"]
HTTPError(st) == [kind |-> "HTTPError", status |-> st, at |-> "none"]
Timeout == [kind |-> "Timeout", status |-> 0, at |-> "none"]
OSError == [kind |-> "OSError", status |-> 0, at |-> "none"]

FetchErrors == {HTTPError(401), HTTPError(404), HTTPError(500), Timeout}
CreateErrors == {HTTPError(400), Timeout}

(***************************************************************************)
(* The remote database (Notion API)                                        *)
(***************************************************************************)
Min(a, b) == IF a < b THEN a ELSE b

\* POST /databases/{id}/query: the records after the cursor, at most
\* page_size of them, with the continuation.  The last response may leave
\* has_more out.
QueryResponses(tbl, cursor, page_size) ==
    LET n == Min(page_size, ServerPageLen)
        last == Min(cursor + n, Len(tbl))
        more == cursor + n < Len(tbl)
        full == [results |-> SubSeq(tbl, cursor + 1, last),
                 has_more |-> more,
                 next_cursor |-> IF more THEN last ELSE 0]
    IN  {full} \cup
        (IF more THEN {}
         ELSE {[results |-> SubSeq(tbl, cursor + 1, last), next_cursor |-> 0]})

\* POST /pages: the page the remote stores for a creation request
CreatedPage(data) == [properties |-> data.properties]

(***************************************************************************)
(* State machine                                                           *)
(***************************************************************************)
\* one entry of a run's record of what it sent and logged:
\*   query (i = cursor sent), found (i = size of the index), schema,
\*   skip / create / failed (i = position of the item), finished
Ev(ev, i, ok, data) == [ev |-> ev, i |-> i, ok |-> ok, data |-> data]

NoDialog == [title |-> "none", text |-> "none"]

SyncInit(tables) ==
    /\ table \in tables
    /\ pc = [r \in Runs |-> "idle"]
    /\ items = [r \in Runs |-> <<>>]
    /\ acc = [r \in Runs |-> {}]
    /\ has_more = [r \in Runs |-> TRUE]
    /\ next_cursor = [r \in Runs |-> 0]
    /\ existing_titles = [r \in Runs |-> {}]
    /\ prop_types = [r \in Runs |-> EmptyDict]
    /\ idx = [r \in Runs |-> 0]
    /\ pushed = [r \in Runs |-> 0]
    /\ skipped = [r \in Runs |-> 0]
    /\ log = [r \in Runs |-> <<>>]
    /\ err = [r \in Runs |-> NoError]
    /\ dialog = [r \in Runs |-> NoDialog]
    /\ complete = [r \in Runs |-> FALSE]

DateIdle ==
    /\ date_str = <<>>
    /\ date_out = None
    /\ date_pc = "idle"

PayIdle ==
    /\ pay_item = ItemB
    /\ pay_types = EmptyDict
    /\ pay_out = EmptyDict
    /\ pay_pc = "idle"

Init ==
    /\ SyncInit(SeqsUpTo(PageShapes, MaxRemote))
    /\ DateIdle
    /\ PayIdle

\* bool(response): requests.Response.__bool__ is Response.ok, false for
\* every status raise_for_status raises on
ResponseTruthy(status) == ~(status >= 400 /\ status < 600)

\* the except clauses of _sync_thread
ErrorDialog(e) ==
    IF e.kind = "HTTPError"
    THEN IF ResponseTruthy(e.status) /\ e.status = 401
         THEN [title |-> "Credential Error", text |-> "Invalid Notion credentials."]
         ELSE IF ResponseTruthy(e.status) /\ e.status = 404
         THEN [title |-> "Database Error", text |-> "Database not found or access denied."]
         ELSE [title |-> "Sync Error", text |-> "Error"]
    ELSE [title |-> "Sync Error", text |-> "Unexpected error"]

\* an exception leaves push_to_notion and is handled by _sync_thread
Raise(r, e, at) ==
    /\ pc' = [pc EXCEPT ![r] = "failed"]
    /\ err' = [err EXCEPT ![r] = [e EXCEPT !.at = at]]
    /\ dialog' = [dialog EXCEPT ![r] = ErrorDialog(e)]

\* a start_sync that refuses to start while another sync thread runs
StartAllowedWhenNoneRunning(r) ==
    \A q \in Runs \ {r} : pc[q] \in {"idle", "rejected", "no_items", "failed", "done"}

\* start_sync has no check for a sync thread that is already running
StartAllowed(r) == TRUE

\* start_sync with a field missing or no such CSV file: a warning, no thread
StartSyncRejected(r) ==
    /\ pc[r] = "idle"
    /\ pc' = [pc EXCEPT ![r] = "rejected"]
    /\ dialog' = [dialog EXCEPT ![r] = [title |-> "Missing", text |-> "warning"]]
    /\ UNCHANGED <<table, items, acc, has_more, next_cursor, existing_titles,
                   prop_types, idx, pushed, skipped, log, err, complete>>
    /\ UNCHANGED <<dateVars, payVars>>

\* start_sync: the thread is started
StartSync(r) ==
    /\ pc[r] = "idle"
    /\ StartAllowed(r)
    /\ pc' = [pc EXCEPT ![r] = "parse"]
    /\ UNCHANGED <<table, items, acc, has_more, next_cursor, existing_titles,
                   prop_types, idx, pushed, skipped, log, err, dialog, complete>>
    /\ UNCHANGED <<dateVars, payVars>>

\* _sync_thread: parse_zotero_csv returns the items; none: the run ends
ParseCsv(r, seqs) ==
    /\ pc[r] = "parse"
    /\ \E its \in seqs :
         /\ items' = [items EXCEPT ![r] = its]
         /\ pc' = [pc EXCEPT ![r] = IF its = <<>> THEN "no_items" ELSE "index"]
    /\ UNCHANGED <<table, acc, has_more, next_cursor, existing_titles,
                   prop_types, idx, pushed, skipped, log, err, dialog, complete>>
    /\ UNCHANGED <<dateVars, payVars>>

\* _sync_thread: parse_zotero_csv raises (the file cannot be read or decoded)
ParseCsvFail(r) ==
    /\ pc[r] = "parse"
    /\ Raise(r, OSError, "parse")
    /\ UNCHANGED <<table, items, acc, has_more, next_cursor, existing_titles,
                   prop_types, idx, pushed, skipped, log, complete>>
    /\ UNCHANGED <<dateVars, payVars>>

\* except RequestException in get_existing_notion_titles, were it to stop
\* the loop and return what it has
OnFetchErrorReturnPartial(r, e) ==
    /\ existing_titles' = [existing_titles EXCEPT ![r] = acc[r]]
    /\ pc' = [pc EXCEPT ![r] = "schema"]
    /\ UNCHANGED <<err, dialog>>

\* except RequestException in get_existing_notion_titles: log, raise
OnFetchError(r, e) ==
    /\ Raise(r, e, "index")
    /\ UNCHANGED existing_titles

\* one iteration of get_existing_notion_titles' loop, the request failing
FetchPageFail(r) ==
    /\ pc[r] = "index"
    /\ has_more[r]
    /\ \E e \in FetchErrors :
         /\ log' = [log EXCEPT ![r] =
                      Append(@, Ev("query", StartCursor(next_cursor[r]), FALSE, <<>>))]
         /\ OnFetchError(r, e)
    /\ UNCHANGED <<table, items, acc, has_more, next_cursor,
                   prop_types, idx, pushed, skipped, complete>>
    /\ UNCHANGED <<dateVars, payVars>>

\* one iteration of get_existing_notion_titles' loop; after the last one
\* the set is returned to push_to_notion
FetchPage(r) ==
    /\ pc[r] = "index"
    /\ has_more[r]
    /\ \E data \in QueryResponses(table, StartCursor(next_cursor[r]), PAGE_SIZE) :
         LET titles == acc[r] \cup ResultTitles(data)
             query == Ev("query", StartCursor(next_cursor[r]), TRUE, <<>>)
         IN  /\ acc' = [acc EXCEPT ![r] = titles]
             /\ has_more' = [has_more EXCEPT ![r] = HasMore(data)]
             /\ next_cursor' = [next_cursor EXCEPT ![r] = NextCursor(data)]
             /\ IF HasMore(data)
                THEN /\ log' = [log EXCEPT ![r] = Append(@, query)]
                     /\ UNCHANGED <<pc, existing_titles>>
                ELSE /\ log' = [log EXCEPT ![r] =
                                  @ \o <<query, Ev("found", Cardinality(titles), TRUE, <<>>)>>]
                     /\ existing_titles' = [existing_titles EXCEPT ![r] = titles]
                     /\ pc' = [pc EXCEPT ![r] = "schema"]
    /\ UNCHANGED <<table, items, prop_types, idx, pushed, skipped, err, dialog, complete>>
    /\ UNCHANGED <<dateVars, payVars>>

\* prop_types = {k: v.get("type") for k, v in data.get("properties", {}).items()}
PropTypes(data) ==
    LET props == DictGet(data, "properties", EmptyDict)
    IN  [k \in DOMAIN props |-> GetStr(props[k], "type")]

\* except RequestException in get_database_properties: log, raise
OnSchemaError(r, e) ==
    /\ Raise(r, e, "schema")
    /\ UNCHANGED <<prop_types, idx>>

\* get_database_properties, the request failing
FetchSchemaFail(r) ==
    /\ pc[r] = "schema"
    /\ \E e \in FetchErrors :
         /\ log' = [log EXCEPT ![r] = Append(@, Ev("schema", 0, FALSE, <<>>))]
         /\ OnSchemaError(r, e)
    /\ UNCHANGED <<table, items, acc, has_more, next_cursor, existing_titles,
                   pushed, skipped, complete>>
    /\ UNCHANGED <<dateVars, payVars>>

\* get_database_properties returns; push_to_notion enters its loop
FetchSchema(r) ==
    /\ pc[r] = "schema"
    /\ \E data \in Schemas :
         prop_types' = [prop_types EXCEPT ![r] = PropTypes(data)]
    /\ log' = [log EXCEPT ![r] = Append(@, Ev("schema", 0, TRUE, <<>>))]
    /\ pc' = [pc EXCEPT ![r] = "loop"]
    /\ idx' = [idx EXCEPT ![r] = 1]
    /\ UNCHANGED <<table, items, acc, has_more, next_cursor, existing_titles,
                   pushed, skipped, err, dialog, complete>>
    /\ UNCHANGED <<dateVars, payVars>>

\* a duplicate test that never finds one
IsExistingNever(item, existing) == FALSE

\* if item["title"] in existing_titles
IsExisting(item, existing) == PyStr(item.title) \in existing

\* the loop body for an item whose title is in the index
SkipItem(r) ==
    /\ pc[r] = "loop"
    /\ idx[r] <= Len(items[r])
    /\ IsExisting(items[r][idx[r]], existing_titles[r])
    /\ skipped' = [skipped EXCEPT ![r] = @ + 1]
    /\ log' = [log EXCEPT ![r] = Append(@, Ev("skip", idx[r], TRUE, <<>>))]
    /\ idx' = [idx EXCEPT ![r] = @ + 1]
    /\ UNCHANGED <<table, pc, items, acc, has_more, next_cursor, existing_titles,
                   prop_types, pushed, err, dialog, complete>>
    /\ UNCHANGED <<dateVars, payVars>>

\* data = {"parent": ..., "properties": properties}
CreateRequest(r, pads) ==
    [properties |-> BuildProperties(items[r][idx[r]], DoiType(prop_types[r]), pads)]

\* the loop body for a new item, the creation request succeeding
PushItem(r) ==
    /\ pc[r] = "loop"
    /\ idx[r] <= Len(items[r])
    /\ ~IsExisting(items[r][idx[r]], existing_titles[r])
    /\ \E pads \in BOOLEAN :
         /\ table' = Append(table, CreatedPage(CreateRequest(r, pads)))
         /\ log' = [log EXCEPT ![r] =
                      Append(@, Ev("create", idx[r], TRUE, CreateRequest(r, pads)))]
    /\ pushed' = [pushed EXCEPT ![r] = @ + 1]
    /\ idx' = [idx EXCEPT ![r] = @ + 1]
    /\ UNCHANGED <<pc, items, acc, has_more, next_cursor, existing_titles,
                   prop_types, skipped, err, dialog, complete>>
    /\ UNCHANGED <<dateVars, payVars>>

\* except RequestException in push_to_notion's loop, were it to raise
OnCreateErrorRaise(r, e) ==
    /\ Raise(r, e, "create")
    /\ UNCHANGED idx

\* except RequestException in push_to_notion's loop, were the item not left
OnCreateErrorRetry(r, e) ==
    /\ UNCHANGED <<idx, pc, err, dialog>>

\* except RequestException in push_to_notion's loop: log, next item
OnCreateError(r, e) ==
    /\ idx' = [idx EXCEPT ![r] = @ + 1]
    /\ UNCHANGED <<pc, err, dialog>>

\* the loop body for a new item, the creation request failing
PushItemFail(r) ==
    /\ pc[r] = "loop"
    /\ idx[r] <= Len(items[r])
    /\ ~IsExisting(items[r][idx[r]], existing_titles[r])
    /\ \E pads \in BOOLEAN, e \in CreateErrors :
         /\ log' = [log EXCEPT ![r] =
                      @ \o <<Ev("create", idx[r], FALSE, CreateRequest(r, pads)),
                             Ev("failed", idx[r], e.kind = "HTTPError", <<>>)>>]
         /\ OnCreateError(r, e)
    /\ UNCHANGED <<table, items, acc, has_more, next_cursor, existing_titles,
                   prop_types, pushed, skipped, complete>>
    /\ UNCHANGED <<dateVars, payVars>>

\* the loop is over: the counts are logged, push_to_notion returns and
\* _sync_thread prints 'Sync complete.'
Finish(r) ==
    /\ pc[r] = "loop"
    /\ idx[r] > Len(items[r])
    /\ log' = [log EXCEPT ![r] =
                 Append(@, Ev("finished", 0, TRUE, <<pushed[r], skipped[r]>>))]
    /\ complete' = [complete EXCEPT ![r] = TRUE]
    /\ pc' = [pc EXCEPT ![r] = "done"]
    /\ UNCHANGED <<table, items, acc, has_more, next_cursor, existing_titles,
                   prop_types, idx, pushed, skipped, err, dialog>>
    /\ UNCHANGED <<dateVars, payVars>>

\* one sync run
Next ==
    \/ StartSyncRejected(1)
    \/ StartSync(1)
    \/ ParseCsv(1, SeqsUpTo(ItemSet, MaxItems))
    \/ ParseCsvFail(1)
    \/ FetchPage(1)
    \/ FetchPageFail(1)
    \/ FetchSchema(1)
    \/ FetchSchemaFail(1)
    \/ SkipItem(1)
    \/ PushItem(1)
    \/ PushItemFail(1)
    \/ Finish(1)

Spec == Init /\ [][Next]_vars

(***************************************************************************)
(* Two runs started from the same window against the same database         *)
(***************************************************************************)
InitConc ==
    /\ SyncInit(SeqsUpTo(ConcPageShapes, ConcMaxRemote))
    /\ DateIdle
    /\ PayIdle

NextConc ==
    \E r \in Runs :
        \/ StartSyncRejected(r)
        \/ StartSync(r)
        \/ ParseCsv(r, SeqsUpTo(ConcItemSet, ConcMaxItems))
        \/ ParseCsvFail(r)
        \/ FetchPage(r)
        \/ FetchPageFail(r)
        \/ FetchSchema(r)
        \/ FetchSchemaFail(r)
        \/ SkipItem(r)
        \/ PushItem(r)
        \/ PushItemFail(r)
        \/ Finish(r)

SpecConc == InitConc /\ [][NextConc]_vars

(***************************************************************************)
(* format_date on its own                                                  *)
(***************************************************************************)
\* 2020 in Arabic-Indic digits
S_2020_ARABIC == <<"U+0662", "U+0660", "U+0662", "U+0660">>

DateParts ==
    { <<>>, <<"2", "0", "2", "0">>, <<"2", "0", "2", "1">>, <<"0", "9", "9", "9">>,
      <<"0", "0", "0", "0">>, <<"5">>, <<"0", "5">>, <<"1", "3">>, <<"2">>,
      <<"2", "9">>, <<"3", "0">>, <<"0", "0">>, <<" ", "7">>, <<"x">>,
      S_2020_ARABIC, <<"1", "U+0663">> }

DateSeparators == { <<>>, <<"-">>, <<"/">> }

DateInputs ==
    { a \o s1 \o b \o s2 \o c :
        a \in DateParts, s1 \in DateSeparators, b \in DateParts,
        s2 \in DateSeparators, c \in DateParts }

InitDate ==
    /\ SyncInit({<<>>})
    /\ date_str \in DateInputs
    /\ date_out = None
    /\ date_pc = "call"
    /\ PayIdle

CallFormatDate ==
    /\ date_pc = "call"
    /\ \E pads \in BOOLEAN : date_out' = format_date(date_str, pads)
    /\ date_pc' = "returned"
    /\ UNCHANGED <<date_str, syncVars, payVars>>

NextDate == CallFormatDate

SpecDate == InitDate /\ [][NextDate]_vars

(***************************************************************************)
(* The creation request on its own                                         *)
(***************************************************************************)
PayDois ==
    { <<>>, <<" ">>, <<" ", "\t">>, S_DOI, <<" ">> \o S_DOI \o <<"\n">>,
      DOI_PREFIX \o S_DOI, HTTP \o <<":", "/", "/", "x">>, HTTP \o <<"x">>,
      <<"f", "t", "p", ":", "/", "/", "x">>, <<" ">> \o HTTP \o <<"s", ":", "/", "/", "x">>,
      <<"\r">>, <<"\r">> \o S_DOI \o <<"U+00A0">> }

PayItems ==
    [ title : {"A"},
      authors : { <<>>, << <<"J", " ", "D">> >>, << <<"J", " ", "D">>, <<"B">> >> },
      date : { <<>>, S_2020_05, <<"x">>, S_2020_ARABIC },
      doi : PayDois ]

PayTypes ==
    {PropTypes(d) : d \in Schemas} \cup {[DOI |-> PyStr("number")], [DOI |-> PyNone]}

InitPay ==
    /\ SyncInit({<<>>})
    /\ DateIdle
    /\ pay_item \in PayItems
    /\ pay_types \in PayTypes
    /\ pay_out = EmptyDict
    /\ pay_pc = "call"

BuildPayload ==
    /\ pay_pc = "call"
    /\ \E pads \in BOOLEAN :
         pay_out' = BuildProperties(pay_item, DoiType(pay_types), pads)
    /\ pay_pc' = "built"
    /\ UNCHANGED <<pay_item, pay_types, syncVars, dateVars>>

NextPay == BuildPayload

SpecPay == InitPay /\ [][NextPay]_vars

(***************************************************************************)
(* Properties                                                              *)
(***************************************************************************)
Events(r, kind) == SelectSeq(log[r], LAMBDA e : e.ev = kind)

\* the number of entries of a kind about item j
EventCount(r, kind, j) ==
    Cardinality({k \in 1..Len(log[r]) : log[r][k].ev = kind /\ log[r][k].i = j})

FailedCreates(r) ==
    {k \in 1..Len(log[r]) : log[r][k].ev = "create" /\ ~log[r][k].ok}

\* get_existing_notion_titles has returned its set to push_to_notion
IndexReturned(r) ==
    \/ pc[r] \in {"schema", "loop", "done"}
    \/ pc[r] = "failed" /\ err[r].at \in {"schema", "create"}

\* the remote database as it was before the run created anything
\* (one run: the pages it created are the last ones)
RemoteBefore(r) == SubSeq(table, 1, Len(table) - pushed[r])

\* the title segments of a candidate field of a page
Segments(page, key) ==
    IF key \in DOMAIN page.properties /\ "title" \in DOMAIN page.properties[key]
    THEN page.properties[key].title ELSE <<>>

SegmentContent(seg) ==
    IF "text" \in DOMAIN seg /\ "content" \in DOMAIN seg.text
    THEN PyStr(seg.text.content) ELSE PyNone

\* a page bears a title when one of the candidate fields holds a segment
IsTitleBearing(page) ==
    \E k \in 1..Len(TITLE_KEYS) : Segments(page, TITLE_KEYS[k]) # <<>>

\* its title: the first segment of the first candidate that holds one
TitleOf(page) ==
    LET k == CHOOSE k \in 1..Len(TITLE_KEYS) :
                 /\ Segments(page, TITLE_KEYS[k]) # <<>>
                 /\ \A j \in 1..(k - 1) : Segments(page, TITLE_KEYS[j]) = <<>>
    IN  SegmentContent(Segments(page, TITLE_KEYS[k])[1])

ExpectedTitles(tbl) ==
    {TitleOf(tbl[n]) : n \in {m \in 1..Len(tbl) : IsTitleBearing(tbl[m])}}

\* C1: an item is submitted if and only if its title is not in the index
\* built before the loop; an item whose title is in the index is skipped,
\* counted once and never submitted; the index stays as it was returned, so a
\* title repeated in the input and absent remotely is submitted each time.
C1_SubmitIffNotInIndex ==
    \A r \in Runs :
        pc[r] \in {"loop", "done"} =>
            /\ existing_titles[r] = acc[r]
            /\ \A j \in 1..(idx[r] - 1) :
                 /\ EventCount(r, "create", j) >= 1
                        <=> PyStr(items[r][j].title) \notin existing_titles[r]
                 /\ EventCount(r, "skip", j) =
                        (IF PyStr(items[r][j].title) \in existing_titles[r] THEN 1 ELSE 0)
            /\ skipped[r] = Cardinality({j \in 1..(idx[r] - 1) :
                                PyStr(items[r][j].title) \in existing_titles[r]})

\* two rows with the same title, absent remotely, have both been submitted
C1_Witness ==
    /\ pc[1] = "done"
    /\ Len(items[1]) = 2
    /\ items[1][1].title = items[1][2].title
    /\ PyStr(items[1][1].title) \notin existing_titles[1]
    /\ existing_titles[1] # {}
    /\ EventCount(1, "create", 1) = 1
    /\ EventCount(1, "create", 2) = 1

\* C2: a failed submission does not stop the loop: when the loop has ended
\* every item was skipped or attempted exactly once, pushed + skipped is at
\* most the number of items, and the difference is the number of failed
\* submissions.
C2_FailureDoesNotStopLoop ==
    \A r \in Runs :
        /\ FailedCreates(r) # {} => pc[r] \in {"loop", "done"}
        /\ pc[r] = "loop" => idx[r] = 1 + skipped[r] + Len(Events(r, "create"))
        /\ pc[r] = "done" =>
             /\ \A j \in 1..Len(items[r]) :
                  EventCount(r, "skip", j) + EventCount(r, "create", j) = 1
             /\ pushed[r] + skipped[r] <= Len(items[r])
             /\ Len(items[r]) - (pushed[r] + skipped[r]) = Cardinality(FailedCreates(r))

\* the first submission failed and the second item was pushed all the same
C2_Witness ==
    /\ pc[1] = "done"
    /\ Len(items[1]) = 2
    /\ \E k \in FailedCreates(1) : log[1][k].i = 1
    /\ \E k \in 1..Len(log[1]) :
         log[1][k].ev = "create" /\ log[1][k].i = 2 /\ log[1][k].ok
    /\ pushed[1] = 1 /\ skipped[1] = 0

\* C3: a failed page fetch or schema fetch aborts the run with the error
\* handed to the caller; the index is returned only after a response without
\* more pages, never after a failed fetch; no creation request is sent before
\* both the index and the field-type map are built.
C3_AbortOnIndexOrSchemaFailure ==
    \A r \in Runs :
        /\ (\E k \in 1..Len(log[r]) : log[r][k].ev \in {"query", "schema"} /\ ~log[r][k].ok)
             => /\ pc[r] = "failed"
                /\ err[r].kind # "none"
                /\ err[r].at \in {"index", "schema"}
                /\ dialog[r] # NoDialog
                /\ ~complete[r]
                /\ Events(r, "create") = <<>>
                /\ Events(r, "skip") = <<>>
        /\ (pc[r] = "failed" /\ err[r].at = "index") => existing_titles[r] = {}
        /\ IndexReturned(r) =>
             /\ ~has_more[r]
             /\ \A k \in 1..Len(log[r]) : log[r][k].ev = "query" => log[r][k].ok
        /\ Events(r, "create") # <<>> =>
             /\ IndexReturned(r)
             /\ \E k \in 1..Len(log[r]) : log[r][k].ev = "schema" /\ log[r][k].ok

\* the second page fetch failed after the first page had been read
C3_Witness ==
    /\ pc[1] = "failed"
    /\ err[1].at = "index"
    /\ acc[1] # {}
    /\ Len(Events(1, "query")) = 2
    /\ existing_titles[1] = {}

IsPrefix(s, t) == Len(s) <= Len(t) /\ SubSeq(t, 1, Len(s)) = s

\* the positions of the items the creation requests were sent for
CreateOrder(r) == [k \in 1..Len(Events(r, "create")) |-> Events(r, "create")[k].i]

C4_Creates ==
    \A r \in Runs :
        /\ \A k \in 1..Len(log[r]) :
             log[r][k].ev \in {"query", "found", "schema", "skip", "create",
                               "failed", "finished"}
        /\ \A k \in 1..(Len(CreateOrder(r)) - 1) : CreateOrder(r)[k] < CreateOrder(r)[k + 1]
        /\ pc[r] \in {"loop", "done"} =>
             \A j \in 1..(idx[r] - 1) :
                 EventCount(r, "skip", j) = 0 => EventCount(r, "create", j) = 1
        /\ pushed[r] = Len(Events(r, "create")) - Cardinality(FailedCreates(r))

\* C4: the requests that change the remote table are creations only: one per
\* item not skipped, in input order, not repeated after a failure; every
\* step leaves the records already in the table as they are and adds at most
\* the one record created.
C4_OnlyCreatesOncePerItem ==
    /\ []C4_Creates
    /\ [][/\ IsPrefix(table, table')
          /\ Len(table') <= Len(table) + 1
          /\ Len(table') = Len(table) + 1 =>
               \E r \in Runs :
                   /\ pushed'[r] = pushed[r] + 1
                   /\ table'[Len(table')] = CreatedPage(log'[r][Len(log'[r])].data)]_vars

\* both submissions failed: two creation requests, one per item, no more
C4_Witness ==
    /\ pc[1] = "done"
    /\ Len(items[1]) = 2
    /\ CreateOrder(1) = <<1, 2>>
    /\ Cardinality(FailedCreates(1)) = 2
    /\ pushed[1] = 0

\* C5: the set returned holds the title of every title-bearing record of
\* every page of the remote table, each once, and is returned only after a
\* response whose has-more is false.
C5_IndexHoldsAllPages ==
    \A r \in Runs :
        IndexReturned(r) =>
            /\ existing_titles[r] = ExpectedTitles(RemoteBefore(r))
            /\ ~has_more[r]
            /\ \E k \in 1..Len(log[r]) :
                 /\ log[r][k].ev = "found"
                 /\ log[r][k].i = Cardinality(ExpectedTitles(RemoteBefore(r)))

\* two pages were fetched, the same title is on both, and it is in the set once
C5_Witness ==
    /\ pc[1] = "schema"
    /\ Len(table) = 3
    /\ Len(Events(1, "query")) = 2
    /\ IsTitleBearing(table[1]) /\ IsTitleBearing(table[3])
    /\ TitleOf(table[1]) = TitleOf(table[3])
    /\ IsTitleBearing(table[2]) /\ TitleOf(table[2]) # TitleOf(table[1])
    /\ Cardinality(existing_titles[1]) = 2

\* the creation requests of run r for title t, and those that succeeded
CreatesFor(r, t) ==
    {k \in 1..Len(log[r]) : log[r][k].ev = "create" /\ items[r][log[r][k].i].title = t}

ItemTitles(r) == {items[r][j].title : j \in 1..Len(items[r])}

\* the pages of the table that a creation request created with title t
CreatedWithTitle(t) ==
    {n \in 1..Len(table) :
        /\ "Authors" \in DOMAIN table[n].properties
        /\ IsTitleBearing(table[n])
        /\ TitleOf(table[n]) = PyStr(t)}

\* C6: nothing keeps a second run from starting while one is in progress,
\* and two runs whose snapshots both lack a title T that both have among
\* their items both submit T, so the table can hold two records titled T.
C6_ConcurrentRunsBothSubmit ==
    /\ \A r \in Runs : pc[r] = "idle" => ENABLED StartSync(r)
    /\ \A t \in {"A", "B"} :
         (/\ \A r \in Runs : /\ pc[r] = "done"
                             /\ t \in ItemTitles(r)
                             /\ PyStr(t) \notin existing_titles[r])
         => /\ \A r \in Runs : CreatesFor(r, t) # {}
            /\ (\A r \in Runs : \E k \in CreatesFor(r, t) : log[r][k].ok)
                 => Cardinality(CreatedWithTitle(t)) >= 2

\* both runs took their snapshot before either created "B", both pushed it,
\* and the table holds it twice
C6_Witness ==
    /\ \A r \in Runs : /\ pc[r] = "done"
                       /\ PyStr("B") \notin existing_titles[r]
                       /\ pushed[r] = 1
                       /\ \E k \in CreatesFor(r, "B") : log[r][k].ok
    /\ Cardinality(CreatedWithTitle("B")) = 2

\* C7: a fatal failure is reported by kind: HTTP 401 as a credential error,
\* HTTP 404 as a database-not-found error, anything else as a generic sync
\* error; 'Sync complete.' only after push_to_notion returned.
C7_FatalErrorsReportedByKind ==
    \A r \in Runs :
        /\ complete[r] => pc[r] = "done"
        /\ (pc[r] = "failed" /\ err[r].at \in {"index", "schema"}) =>
             /\ ~complete[r]
             /\ dialog[r].title =
                  (IF err[r].kind = "HTTPError" /\ err[r].status = 401
                   THEN "Credential Error"
                   ELSE IF err[r].kind = "HTTPError" /\ err[r].status = 404
                   THEN "Database Error"
                   ELSE "Sync Error")

IsAbsoluteUrl(s) ==
    \/ StartsWith(s, HTTP \o <<":", "/", "/">>)
    \/ StartsWith(s, HTTP \o <<"s", ":", "/", "/">>)

\* the DOI property as the creation request should carry it for a URL
DoiEncoding(url, types) ==
    IF "DOI" \in DOMAIN types /\ types["DOI"] = PyStr("url")
    THEN [url |-> url]
    ELSE [rich_text |-> << [text |-> [content |-> url]] >>]

\* C8 as stated: the DOI field is present if and only if the item's DOI
\* string is not empty; its value is the DOI unchanged when that is an
\* absolute URL and the DOI after "https://doi.org/" otherwise; it is a URL
\* value exactly when the map's entry for DOI is "url", a text value otherwise.
C8_DoiFieldAsStated ==
    pay_pc = "built" =>
        /\ "DOI" \in DOMAIN pay_out <=> pay_item.doi # <<>>
        /\ "DOI" \in DOMAIN pay_out =>
             pay_out["DOI"] =
                 DoiEncoding(IF IsAbsoluteUrl(pay_item.doi) THEN pay_item.doi
                             ELSE DOI_PREFIX \o pay_item.doi, pay_types)

\* C8: the DOI field is present if and only if the item's DOI string is
\* not empty once the white space around it is removed; its value is that
\* stripped DOI unchanged when it begins with "http" and the stripped DOI
\* after "https://doi.org/" otherwise; it is a URL value exactly when the
\* map's entry for DOI is "url", a text value otherwise.
C8_DoiField ==
    pay_pc = "built" =>
        LET stripped == Strip(pay_item.doi)
            http == Len(stripped) >= 4 /\ SubSeq(stripped, 1, 4) = <<"h", "t", "t", "p">>
        IN  /\ "DOI" \in DOMAIN pay_out <=> stripped # <<>>
            /\ "DOI" \in DOMAIN pay_out =>
                 pay_out["DOI"] =
                     DoiEncoding(IF http THEN stripped ELSE DOI_PREFIX \o stripped,
                                 pay_types)

\* "10.1/xyz" with a DOI field of type url: the URL https://doi.org/10.1/xyz
C8_Witness ==
    /\ pay_pc = "built"
    /\ pay_item.doi = S_DOI
    /\ DictGet(pay_types, "DOI", PyNone) = PyStr("url")
    /\ pay_out["DOI"] = [url |-> DOI_PREFIX \o S_DOI]

IsIsoDate(s) ==
    /\ Len(s) = 10
    /\ \A k \in {1, 2, 3, 4, 6, 7, 9, 10} : s[k] \in AsciiDigits
    /\ s[5] = "-" /\ s[8] = "-"

\* C9: format_date returns the first pattern's match as YYYY-MM-DD, with 01
\* for an absent month or day, None for an empty input or one no pattern
\* accepts, and never raises.
C9_FormatDateIso ==
    date_pc = "returned" =>
        /\ date_str = <<>> => ~date_out.some
        /\ date_out.some => IsIsoDate(date_out.val)
        /\ (Len(date_str) = 4 /\ (\A k \in 1..4 : date_str[k] \in AsciiDigits)
              /\ date_str # <<"0", "0", "0", "0">>)
             => date_out = Some(date_str \o <<"-", "0", "1", "-", "0", "1">>)

\* the records whose titles the loop has read so far
RecordsRead(r) ==
    IF has_more[r] THEN SubSeq(table, 1, next_cursor[r]) ELSE RemoteBefore(r)

\* the title of a page under the reading that the first candidate the page
\* has decides, whether or not it holds a segment
FirstPresentTitles(page) ==
    IF \A k \in 1..Len(TITLE_KEYS) : TITLE_KEYS[k] \notin DOMAIN page.properties
    THEN {}
    ELSE LET k == CHOOSE k \in 1..Len(TITLE_KEYS) :
                      /\ TITLE_KEYS[k] \in DOMAIN page.properties
                      /\ \A j \in 1..(k - 1) : TITLE_KEYS[j] \notin DOMAIN page.properties
         IN  IF Segments(page, TITLE_KEYS[k]) # <<>>
             THEN {SegmentContent(Segments(page, TITLE_KEYS[k])[1])}
             ELSE {}

\* C10 as stated: the title field of a record is the first candidate name
\* the record has; its first segment is inserted if it holds one, and nothing
\* is inserted for the record if it holds none.
C10_FirstCandidatePresent ==
    \A r \in Runs :
        acc[r] = UNION {FirstPresentTitles(RecordsRead(r)[n]) :
                        n \in 1..Len(RecordsRead(r))}

\* C10: the title field of a record is the first of the candidates Title,
\* Name, title that holds at least one title segment; a candidate the record
\* has but that holds none is passed over and the next one is consulted; the
\* content of that field's first segment is inserted, and nothing is inserted
\* for a record none of whose candidates holds a segment.
C10_FirstCandidateWithSegment ==
    \A r \in Runs : acc[r] = ExpectedTitles(RecordsRead(r))

\* a page whose Title column holds no title segment and whose Name column
\* holds one has been read, and the name is in the set
C10_Witness ==
    /\ pc[1] = "schema"
    /\ Len(table) = 1
    /\ "Title" \in DOMAIN table[1].properties
    /\ Segments(table[1], "Title") = <<>>
    /\ Segments(table[1], "Name") # <<>>
    /\ acc[1] = {SegmentContent(Segments(table[1], "Name")[1])}

(***************************************************************************)
(* One run that keeps running: every request returns a response or fails   *)
(* (timeout=30), and the sync thread is scheduled until it ends            *)
(***************************************************************************)
LivePageShapes ==
    { [properties |-> [Title |-> [title |-> <<Seg("A")>>]]],
      [properties |-> [title |-> [title |-> <<Seg("B"), Seg("A")>>]]] }

InitLive ==
    /\ SyncInit(SeqsUpTo(LivePageShapes, MaxRemote))
    /\ DateIdle
    /\ PayIdle

\* the parsed rows: a title with no authors, no DOI and a Date no pattern reads
LiveItemSet == {ItemB, [ItemB EXCEPT !.title = "A"]}

\* on_close (WM_DELETE_WINDOW): the window is destroyed, main() returns and
\* the process exits; the sync thread is a daemon thread that nothing joins,
\* so a run in progress ends where it is
OnClose(r) ==
    /\ pc[r] \in {"idle", "parse", "index", "schema", "loop"}
    /\ pc' = [pc EXCEPT ![r] = "closed"]
    /\ UNCHANGED <<table, items, acc, has_more, next_cursor, existing_titles,
                   prop_types, idx, pushed, skipped, log, err, dialog, complete>>
    /\ UNCHANGED <<dateVars, payVars>>

\* the steps of the sync thread
ThreadLive ==
    \/ ParseCsv(1, SeqsUpTo(LiveItemSet, MaxItems))
    \/ ParseCsvFail(1)
    \/ FetchPage(1)
    \/ FetchPageFail(1)
    \/ FetchSchema(1)
    \/ FetchSchemaFail(1)
    \/ SkipItem(1)
    \/ PushItem(1)
    \/ PushItemFail(1)
    \/ Finish(1)

NextLive ==
    \/ StartSyncRejected(1)
    \/ StartSync(1)
    \/ ParseCsv(1, SeqsUpTo(LiveItemSet, MaxItems))
    \/ ParseCsvFail(1)
    \/ FetchPage(1)
    \/ FetchPageFail(1)
    \/ FetchSchema(1)
    \/ FetchSchemaFail(1)
    \/ SkipItem(1)
    \/ PushItem(1)
    \/ PushItemFail(1)
    \/ Finish(1)
    \/ OnClose(1)

\* requests.post / requests.get with timeout=30 return or raise, and while
\* the process lives the thread is scheduled: a step of the thread that can
\* be taken is taken.  Nothing makes the user start a run or close the window.
SpecLive == InitLive /\ [][NextLive]_vars /\ WF_vars(ThreadLive)

\* the records of one response, and the responses a table of that length takes
PageLen == Min(PAGE_SIZE, ServerPageLen)

NPages(tbl) ==
    IF Len(tbl) = 0 THEN 1 ELSE (Len(tbl) + PageLen - 1) \div PageLen

\* push_to_notion is running
Running(r) == pc[r] \in {"index", "schema", "loop"}

\* the run has ended with the final counts or on an index or schema failure
Ended(r) ==
    \/ pc[r] = "done" /\ complete[r]
    \/ pc[r] = "failed" /\ err[r].at \in {"index", "schema"}

C11_Pagination ==
    \A r \in Runs :
        LET queries == Events(r, "query")
        IN  /\ queries # <<>> => queries[1].i = 0
            \* each later request carries the cursor the response before it gave
            /\ \A k \in 2..Len(queries) :
                 /\ queries[k - 1].ok
                 /\ queries[k].i = queries[k - 1].i + PageLen
                 /\ queries[k].i < Len(RemoteBefore(r))
            /\ pc[r] = "index" => has_more[r] /\ Len(queries) < NPages(RemoteBefore(r))
            /\ IndexReturned(r) =>
                 /\ Len(queries) = NPages(RemoteBefore(r))
                 /\ ~has_more[r]
            /\ pc[r] = "done" =>
                 /\ log[r][Len(log[r])].ev = "finished"
                 /\ log[r][Len(log[r])].data = <<pushed[r], skipped[r]>>

\* C11: a run that has entered push_to_notion ends, with the final counts
\* logged after the last item or on an index or schema failure; the k-th
\* page request carries the cursor of the response before it, a table of n
\* pages is read with exactly n requests, and the loop is left on the first
\* response whose has-more is false or missing.
C11_RunTerminates ==
    /\ []C11_Pagination
    /\ \A r \in {1} : Running(r) ~> Ended(r)

====
